---------------------------- MODULE Spec2Model ----------------------------
(***************************************************************************)
(* SwiftPass driver dashboard: the QR fare scan (onScanSuccess) run by     *)
(* several driver devices against one shared store (students, scan_logs,   *)
(* transactions, notifications).  Every `await supabase...` of the handler *)
(* is one atomic step on the store; between two awaits of one device any   *)
(* other device may take steps.  The same dashboards run the trip of the   *)
(* bus: startTrip, endTrip, the stop updates driven by GPS samples, by the  *)
(* manual buttons and by the simulation buttons, and fetchData on load,    *)
(* against the tables active_trips and trip_stop_events.                   *)
(***************************************************************************)
EXTENDS Integers, Sequences, FiniteSets, TLC

(* ------------------------------ bounds -------------------------------- *)
NumDrivers == 2        \* driver devices scanning concurrently
NumStudents == 2       \* pass holders in the students table
MaxDay == 1            \* calendar days are 0..MaxDay
MaxScans == 3          \* scan attempts started in one behaviour
MaxFaults == 1         \* store calls that fail in one behaviour (SpecF)
NumStops == 3          \* stops of the bus's route, sequence 1..NumStops
MaxTrips == 2          \* rows of active_trips inserted in one behaviour
MaxClock == 1          \* Date.now() takes the values 0..MaxClock ticks
MaxOps == 4            \* trip handlers started in one behaviour (SpecT)
MaxSeqOps == 6         \* trip handlers run one after the other (SpecQ)
MaxProbeOps == 2       \* position samples handled in one behaviour (SpecP)
MaxSoloOps == 7        \* handlers started on the one dashboard of SpecD
MaxViewOps == 3        \* handlers started on the dashboard the viewer follows (SpecV)

(* ------------------------- program constants -------------------------- *)
DailyFare == 60        \* bus_routes.daily_fare of the driver's route
LowBalanceDays == 3    \* newBalance < dailyFare * 3
DailyScanLimit == 2    \* todayScans >= 2
ARRIVAL_RADIUS_METERS == 50
DEPARTURE_RADIUS_METERS == 80
DebounceMs == 30000    \* now - lastAutoUpdateRef.current.time < 30000
TickMs == 30000        \* milliseconds between two values of the clock

Drivers == 1..NumDrivers
Students == 1..NumStudents
UnknownId == 0                         \* a decoded text matching no student
DecodedTexts == Students \cup {UnknownId}
InitBalances == {30, 100, 250}         \* opening balances of student 1
OtherBalances == {100}                 \* opening balances of the other students
BlockedSets == {{}, {1}}               \* the students an admin has blocked
StoreOutcomes == {"ok", "error", "throw"}
Undefined == -1                        \* an optional field that is not set

VARIABLES
    wallet_balance,    \* students.wallet_balance, by student id
    is_blocked,        \* students.is_blocked, by student id
    scan_logs,         \* table scan_logs, in insertion order
    transactions,      \* table transactions, in insertion order
    notifications,     \* table notifications, in insertion order
    now,               \* the calendar day of the wall clock
    pc,                \* per device: the await the handler is suspended at
    student,           \* per device: the row read at the start of the scan
    today,             \* per device: local midnight computed by the handler
    todayScans,        \* per device: the count read from scan_logs
    newBalance,        \* per device: student.wallet_balance - dailyFare
    scanResult,        \* per device: the result shown to the driver
    wrote,             \* per device: the writes issued by the running scan
    attempts,          \* number of scan attempts started so far
    pre,               \* per device: balances and table sizes when the scan began
    alone,             \* per device: nobody else wrote since the scan began
    faults             \* store calls that have failed so far

VARIABLES
    active_trips,      \* table active_trips, in insertion order (id = index)
    trip_stop_events,  \* table trip_stop_events, in insertion order (id = index)
    located,           \* the stops of the route that have coordinates
    clock,             \* Date.now() / new Date()
    activeTrip,        \* per dashboard: useState activeTrip (a trip id)
    stops,             \* per dashboard: useState stops (status, event_id)
    testMode,          \* per dashboard: useState testMode
    gpsEnabled,        \* per dashboard: useState gpsEnabled
    watching,          \* per dashboard: a geolocation watch is registered
    lastAutoUpdateRef, \* per dashboard: the last automatic update issued
    opsLeft,           \* number of trip handlers that may still start
    task,              \* per dashboard: the handlers suspended at an await:
                       \* one started by a button or the page load, one
                       \* started by a GPS sample
    autoLog,           \* history, per dashboard since it was opened: the calls
                       \* of autoUpdateStopStatus of the last 30 s that went on
                       \* to the store
    viewing,           \* student viewer: the page is open, its channels subscribed
    changes,           \* student viewer: change notifications not yet processed
    viewTrip,          \* student viewer: useState activeTrip (a trip id)
    viewStops,         \* student viewer: useState stops (status by stop)
    fetches            \* student viewer: the calls of updateStopsWithEvents
                       \* suspended at their select or holding its result

svars == <<wallet_balance, is_blocked, scan_logs, transactions, notifications,
           now, pc, student, today, todayScans, newBalance, scanResult,
           wrote, attempts, pre, alone, faults>>

wvars == <<viewing, changes, viewTrip, viewStops, fetches>>

tvars == <<active_trips, trip_stop_events, located, clock, activeTrip, stops,
           testMode, gpsEnabled, watching, lastAutoUpdateRef, opsLeft, task,
           autoLog, viewing, changes, viewTrip, viewStops, fetches>>

vars == <<svars, tvars>>

store == <<wallet_balance, is_blocked, scan_logs, transactions, notifications>>

NoStudent == [id |-> UnknownId, wallet_balance |-> 0, is_blocked |-> FALSE]
NoResult == [status |-> "none", message |-> "none",
             fareDeducted |-> Undefined, balanceAfter |-> Undefined]
NoPre == [wallet |-> <<>>, logs |-> 0, txs |-> 0, notes |-> 0]

Result(status, message, fare, balance) ==
    [status |-> status, message |-> message,
     fareDeducted |-> fare, balanceAfter |-> balance]

(* a row of scan_logs as the handler inserts it; scan_timestamp DEFAULT NOW() *)
ScanLogAlwaysSuccess(d, status, fare, balance) ==
    [student_id |-> student[d].id, driver_id |-> d, scan_status |-> "success",
     fare_deducted |-> fare, balance_after_scan |-> balance,
     scan_timestamp |-> now]
ScanLog(d, status, fare, balance) ==
    [student_id |-> student[d].id, driver_id |-> d, scan_status |-> status,
     fare_deducted |-> fare, balance_after_scan |-> balance,
     scan_timestamp |-> now]

(* .eq('student_id').eq('scan_status','success').gte('scan_timestamp', today) *)
CountTodayScansAnyStatus(sid, since) ==
    Cardinality({i \in 1..Len(scan_logs) :
                    /\ scan_logs[i].student_id = sid
                    /\ scan_logs[i].scan_timestamp >= since})
CountTodayScans(sid, since) ==
    Cardinality({i \in 1..Len(scan_logs) :
                    /\ scan_logs[i].student_id = sid
                    /\ scan_logs[i].scan_status = "success"
                    /\ scan_logs[i].scan_timestamp >= since})

(* a dashboard that has loaded while the bus had no trip *)
Stops == 1..NumStops
NoTrip == 0                            \* activeTrip is null
NoEvent == 0                           \* stop.event_id is undefined
Slots == {"button", "gps"}
Idle == [pc |-> "idle", via |-> "none", trip |-> NoTrip, todo |-> <<>>]
NoLast == [stopId |-> 0, status |-> "none", time |-> 0]

ViewerInit ==
    /\ viewing = FALSE
    /\ changes = <<>>
    /\ viewTrip = NoTrip
    /\ viewStops = [s \in Stops |-> "pending"]
    /\ fetches = {}

TripInit ==
    /\ ViewerInit
    /\ autoLog = [d \in Drivers |-> <<>>]
    /\ active_trips = <<>>
    /\ trip_stop_events = <<>>
    /\ clock = 0
    /\ activeTrip = [d \in Drivers |-> NoTrip]
    /\ stops = [d \in Drivers |->
                  [s \in Stops |-> [status |-> "pending", event_id |-> NoEvent]]]
    /\ testMode = [d \in Drivers |-> FALSE]
    /\ gpsEnabled = [d \in Drivers |-> FALSE]
    /\ watching = [d \in Drivers |-> FALSE]
    /\ lastAutoUpdateRef = [d \in Drivers |-> NoLast]
    /\ task = [d \in Drivers |-> [k \in Slots |-> Idle]]

Init ==
    /\ TripInit
    /\ located = Stops
    /\ opsLeft = 0
    /\ wallet_balance \in {[s \in Students |-> IF s = 1 THEN b ELSE c] :
                              b \in InitBalances, c \in OtherBalances}
    /\ is_blocked \in {[s \in Students |-> s \in B] : B \in BlockedSets}
    /\ scan_logs = <<>>
    /\ transactions = <<>>
    /\ notifications = <<>>
    /\ now = 0
    /\ pc = [d \in Drivers |-> "idle"]
    /\ student = [d \in Drivers |-> NoStudent]
    /\ today = [d \in Drivers |-> 0]
    /\ todayScans = [d \in Drivers |-> 0]
    /\ newBalance = [d \in Drivers |-> 0]
    /\ scanResult = [d \in Drivers |-> NoResult]
    /\ wrote = [d \in Drivers |-> <<>>]
    /\ attempts = 0
    /\ pre = [d \in Drivers |-> NoPre]
    /\ alone = [d \in Drivers |-> TRUE]
    /\ faults = 0


(* ------------------------- the handler's steps ------------------------ *)
InFlight(d) == pc[d] \notin {"idle", "done"}

(* a write of device d reached the store: every other running scan has     *)
(* seen a concurrent write                                                 *)
Interfere(d) ==
    [e \in Drivers |-> IF e # d /\ pc[e] # "idle" THEN FALSE ELSE alone[e]]

(* catch (err): setScanResult({status: 'not_found', message: 'Error ...'}) *)
ErrorResult == Result("not_found", "error", Undefined, Undefined)

(* a store call of device d ended with outcome o: a rejected promise goes  *)
(* to the catch block, anything else resumes the handler at `next`         *)
Resume(d, o, next, result) ==
    /\ o # "ok" => faults < MaxFaults
    /\ faults' = IF o = "ok" THEN faults ELSE faults + 1
    /\ pc' = [pc EXCEPT ![d] = IF o = "throw" THEN "done" ELSE next]
    /\ scanResult' = [scanResult EXCEPT ![d] =
                         IF o = "throw" THEN ErrorResult ELSE result]

(* supabase.from(table).insert(row): the row is stored unless the call fails *)
Insert(table, row, o) == IF o = "ok" THEN Append(table, row) ELSE table

(* device d issued a write to `table` that ended with outcome o *)
Wrote(d, table, status, fare, o) ==
    /\ alone' = IF o = "ok" THEN Interfere(d) ELSE alone
    /\ wrote' = [wrote EXCEPT ![d] =
                    Append(@, [table |-> table, status |-> status,
                               fare |-> fare, outcome |-> o])]

(* const newBalance = student.wallet_balance - dailyFare *)
NewBalanceNotDeducted(balance, fare) == balance
NewBalance(balance, fare) == balance - fare

(* the branch taken once the count of today's scans is known: the name of  *)
(* the await the handler reaches next                                      *)
BranchNoBalanceCheck(count, balance, fare) ==
    IF count >= DailyScanLimit THEN "insertLimit"
    ELSE IF count = 0 THEN "updateBalance" ELSE "insertReturn"
BranchChargeBelowLimit(count, balance, fare) ==
    IF count >= DailyScanLimit THEN "insertLimit"
    ELSE IF balance < fare THEN "insertInsufficient" ELSE "updateBalance"
BranchAfterCount(count, balance, fare) ==
    IF count >= DailyScanLimit THEN "insertLimit"
    ELSE IF count = 0
         THEN IF balance < fare THEN "insertInsufficient" ELSE "updateBalance"
         ELSE "insertReturn"

(* students.select('*').eq('id', studentId).single(): the row, or no row   *)
StudentRowAnyId(text) ==
    [id |-> text,
     wallet_balance |-> IF text \in Students THEN wallet_balance[text] ELSE 0,
     is_blocked |-> IF text \in Students THEN is_blocked[text] ELSE TRUE]
StudentRow(text) ==
    IF text \in Students
    THEN [id |-> text, wallet_balance |-> wallet_balance[text],
          is_blocked |-> is_blocked[text]]
    ELSE NoStudent

(* where the scan goes once the row is read: no row ends it, a blocked     *)
(* holder is refused before anything is counted                            *)
BranchBlockedNotChecked(row) ==
    IF row = NoStudent THEN "done" ELSE "count"
BranchAfterLookup(row) ==
    IF row = NoStudent THEN "done"
    ELSE IF row.is_blocked THEN "insertBlocked" ELSE "count"

(* onScanSuccess(decodedText), up to and including the select of the       *)
(* student row; `today` is computed right after an unblocked student is    *)
(* found                                                                   *)
onScanSuccess(d, text, o) ==
    /\ pc[d] = "idle"
    /\ attempts < MaxScans
    /\ attempts' = attempts + 1
    /\ wrote' = [wrote EXCEPT ![d] = <<>>]
    /\ LET row == IF o = "ok" THEN StudentRow(text) ELSE NoStudent
           found == row # NoStudent
       IN /\ student' = [student EXCEPT ![d] = row]
          /\ Resume(d, o,
                    BranchAfterLookup(row),
                    IF ~found
                    THEN Result("not_found", "notfound", Undefined, Undefined)
                    ELSE NoResult)
          /\ today' = [today EXCEPT ![d] =
                          IF found /\ ~row.is_blocked THEN now ELSE @]
    /\ pre' = [pre EXCEPT ![d] =
                  [wallet |-> wallet_balance, logs |-> Len(scan_logs),
                   txs |-> Len(transactions),
                   notes |-> Len(notifications)]]
    /\ alone' = [alone EXCEPT ![d] = TRUE]
    /\ UNCHANGED <<store, now, todayScans, newBalance>>
    /\ UNCHANGED tvars

(* if (student.is_blocked) { insert scan_logs 'blocked'; return } *)
InsertBlockedLog(d, o) ==
    /\ pc[d] = "insertBlocked"
    /\ scan_logs' = Insert(scan_logs,
                           ScanLog(d, "blocked", 0, student[d].wallet_balance), o)
    /\ Resume(d, o, "done",
              Result("blocked", "blocked", Undefined, Undefined))
    /\ Wrote(d, "scan_logs", "blocked", 0, o)
    /\ UNCHANGED <<wallet_balance, is_blocked, transactions, notifications,
                   now, student, today, todayScans, newBalance, attempts, pre>>
    /\ UNCHANGED tvars

(* const { count: scanCount } = await ...; const todayScans = scanCount || 0 *)
(* followed by the tests on todayScans and on the balance read at the start  *)
CountScans(d, o) ==
    /\ pc[d] = "count"
    /\ LET n == IF o = "ok" THEN CountTodayScans(student[d].id, today[d]) ELSE 0
       IN /\ todayScans' = [todayScans EXCEPT ![d] = n]
          /\ newBalance' = [newBalance EXCEPT ![d] =
                               NewBalance(student[d].wallet_balance, DailyFare)]
          /\ Resume(d, o,
                    BranchAfterCount(n, student[d].wallet_balance, DailyFare),
                    NoResult)
    /\ UNCHANGED <<store, now, student, today, wrote, attempts, pre, alone>>
    /\ UNCHANGED tvars

(* if (todayScans >= 2) { insert scan_logs 'limit_exceeded'; return } *)
InsertLimitLog(d, o) ==
    /\ pc[d] = "insertLimit"
    /\ scan_logs' = Insert(scan_logs,
                           ScanLog(d, "limit_exceeded", 0,
                                   student[d].wallet_balance), o)
    /\ Resume(d, o, "done",
              Result("limit_exceeded", "limit", Undefined, Undefined))
    /\ Wrote(d, "scan_logs", "limit_exceeded", 0, o)
    /\ UNCHANGED <<wallet_balance, is_blocked, transactions, notifications,
                   now, student, today, todayScans, newBalance, attempts, pre>>
    /\ UNCHANGED tvars

(* if (student.wallet_balance < dailyFare) { insert 'insufficient_balance' } *)
InsertInsufficientLog(d, o) ==
    /\ pc[d] = "insertInsufficient"
    /\ scan_logs' = Insert(scan_logs,
                           ScanLog(d, "insufficient_balance", 0,
                                   student[d].wallet_balance), o)
    /\ Resume(d, o, "done",
              Result("insufficient_balance", "insufficient",
                     Undefined, Undefined))
    /\ Wrote(d, "scan_logs", "insufficient_balance", 0, o)
    /\ UNCHANGED <<wallet_balance, is_blocked, transactions, notifications,
                   now, student, today, todayScans, newBalance, attempts, pre>>
    /\ UNCHANGED tvars

(* students.update({ wallet_balance: newBalance }).eq('id', student.id) *)
UpdateBalance(d, o) ==
    /\ pc[d] = "updateBalance"
    /\ wallet_balance' = IF o = "ok"
                         THEN [wallet_balance EXCEPT
                                  ![student[d].id] = newBalance[d]]
                         ELSE wallet_balance
    /\ Resume(d, o, "insertTransaction", NoResult)
    /\ Wrote(d, "students", "update", DailyFare, o)
    /\ UNCHANGED <<is_blocked, scan_logs, transactions, notifications, now,
                   student, today, todayScans, newBalance, attempts, pre>>
    /\ UNCHANGED tvars

(* transactions.insert({ amount: dailyFare, transaction_type: 'deduction',  *)
(*   balance_before: student.wallet_balance, balance_after: newBalance })   *)
InsertTransaction(d, o) ==
    /\ pc[d] = "insertTransaction"
    /\ transactions' = Insert(transactions,
           [student_id |-> student[d].id, amount |-> DailyFare,
            transaction_type |-> "deduction",
            balance_before |-> student[d].wallet_balance,
            balance_after |-> newBalance[d],
            created_at |-> now], o)
    /\ Resume(d, o, "insertSuccess", NoResult)
    /\ Wrote(d, "transactions", "deduction", DailyFare, o)
    /\ UNCHANGED <<wallet_balance, is_blocked, scan_logs, notifications, now,
                   student, today, todayScans, newBalance, attempts, pre>>
    /\ UNCHANGED tvars

FirstScanResult(d) == Result("success", "first", DailyFare, newBalance[d])

(* scan_logs.insert({ scan_status: 'success', fare_deducted: dailyFare,     *)
(*   balance_after_scan: newBalance }); then the low-balance test           *)
InsertSuccessLog(d, o) ==
    /\ pc[d] = "insertSuccess"
    /\ scan_logs' = Insert(scan_logs,
                           ScanLog(d, "success", DailyFare, newBalance[d]), o)
    /\ IF newBalance[d] < DailyFare * LowBalanceDays
       THEN Resume(d, o, "insertNotification", NoResult)
       ELSE Resume(d, o, "stats", FirstScanResult(d))
    /\ Wrote(d, "scan_logs", "success", DailyFare, o)
    /\ UNCHANGED <<wallet_balance, is_blocked, transactions, notifications,
                   now, student, today, todayScans, newBalance, attempts, pre>>
    /\ UNCHANGED tvars

(* notifications.insert({ type: 'low_balance', ... }); setScanResult success *)
InsertNotification(d, o) ==
    /\ pc[d] = "insertNotification"
    /\ notifications' = Insert(notifications,
           [user_id |-> student[d].id, type |-> "low_balance"], o)
    /\ Resume(d, o, "stats", FirstScanResult(d))
    /\ Wrote(d, "notifications", "low_balance", 0, o)
    /\ UNCHANGED <<wallet_balance, is_blocked, scan_logs, transactions, now,
                   student, today, todayScans, newBalance, attempts, pre>>
    /\ UNCHANGED tvars

(* else { insert scan_logs 'success', fare_deducted: 0; setScanResult }     *)
InsertReturnLog(d, o) ==
    /\ pc[d] = "insertReturn"
    /\ scan_logs' = Insert(scan_logs,
                           ScanLog(d, "success", 0, student[d].wallet_balance), o)
    /\ Resume(d, o, "stats",
              Result("success", "second", 0, student[d].wallet_balance))
    /\ Wrote(d, "scan_logs", "success", 0, o)
    /\ UNCHANGED <<wallet_balance, is_blocked, transactions, notifications,
                   now, student, today, todayScans, newBalance, attempts, pre>>
    /\ UNCHANGED tvars

(* the closing select of the driver's scans of today; its result only    *)
(* feeds the counters on the driver's screen (setTodayStats), which no     *)
(* later step reads, so the step is modelled by its completion             *)
FetchTodayStats(d, o) ==
    /\ pc[d] = "stats"
    /\ Resume(d, o, "done", scanResult[d])
    /\ UNCHANGED <<store, now, student, today, todayScans, newBalance, wrote,
                   attempts, pre, alone>>
    /\ UNCHANGED tvars

(* closeScanner: the result dialog is dismissed; the handler's locals are   *)
(* gone                                                                     *)
closeScanner(d) ==
    /\ pc[d] = "done"
    /\ pc' = [pc EXCEPT ![d] = "idle"]
    /\ scanResult' = [scanResult EXCEPT ![d] = NoResult]
    /\ student' = [student EXCEPT ![d] = NoStudent]
    /\ today' = [today EXCEPT ![d] = 0]
    /\ todayScans' = [todayScans EXCEPT ![d] = 0]
    /\ newBalance' = [newBalance EXCEPT ![d] = 0]
    /\ wrote' = [wrote EXCEPT ![d] = <<>>]
    /\ pre' = [pre EXCEPT ![d] = NoPre]
    /\ alone' = [alone EXCEPT ![d] = TRUE]
    /\ UNCHANGED <<store, now, attempts, faults>>
    /\ UNCHANGED tvars

(* midnight passes *)
Midnight ==
    /\ now < MaxDay
    /\ now' = now + 1
    /\ alone' = [d \in Drivers |-> IF pc[d] # "idle" THEN FALSE ELSE alone[d]]
    /\ UNCHANGED <<store, pc, student, today, todayScans, newBalance,
                   scanResult, wrote, attempts, pre, faults>>
    /\ UNCHANGED tvars

(* one step of the handler running on device d, its store call ending o *)
Step(d, o) ==
    \/ \E text \in DecodedTexts : onScanSuccess(d, text, o)
    \/ InsertBlockedLog(d, o)
    \/ CountScans(d, o)
    \/ InsertLimitLog(d, o)
    \/ InsertInsufficientLog(d, o)
    \/ UpdateBalance(d, o)
    \/ InsertTransaction(d, o)
    \/ InsertSuccessLog(d, o)
    \/ InsertNotification(d, o)
    \/ InsertReturnLog(d, o)
    \/ FetchTodayStats(d, o)

(* Spec: devices scan concurrently, every store call succeeds *)
Next ==
    \/ \E d \in Drivers : Step(d, "ok")
    \/ \E d \in Drivers : closeScanner(d)
    \/ Midnight

Spec == Init /\ [][Next]_vars

(* SpecF: one scan at a time (a retry follows the failed attempt), and a   *)
(* store call may resolve with an error or reject                          *)
Sequential(d) == \A e \in Drivers \ {d} : ~InFlight(e)

NextF ==
    \/ \E d \in Drivers, o \in StoreOutcomes, text \in DecodedTexts :
          Sequential(d) /\ onScanSuccess(d, text, o)
    \/ \E d \in Drivers, o \in StoreOutcomes :
          Sequential(d) /\ InsertBlockedLog(d, o)
    \/ \E d \in Drivers, o \in StoreOutcomes :
          Sequential(d) /\ CountScans(d, o)
    \/ \E d \in Drivers, o \in StoreOutcomes :
          Sequential(d) /\ InsertLimitLog(d, o)
    \/ \E d \in Drivers, o \in StoreOutcomes :
          Sequential(d) /\ InsertInsufficientLog(d, o)
    \/ \E d \in Drivers, o \in StoreOutcomes :
          Sequential(d) /\ UpdateBalance(d, o)
    \/ \E d \in Drivers, o \in StoreOutcomes :
          Sequential(d) /\ InsertTransaction(d, o)
    \/ \E d \in Drivers, o \in StoreOutcomes :
          Sequential(d) /\ InsertSuccessLog(d, o)
    \/ \E d \in Drivers, o \in StoreOutcomes :
          Sequential(d) /\ InsertNotification(d, o)
    \/ \E d \in Drivers, o \in StoreOutcomes :
          Sequential(d) /\ InsertReturnLog(d, o)
    \/ \E d \in Drivers, o \in StoreOutcomes :
          Sequential(d) /\ FetchTodayStats(d, o)
    \/ \E d \in Drivers : closeScanner(d)
    \/ Midnight

SpecF == Init /\ [][NextF]_vars

(* the admin's toggleBlock(student): students.update({is_blocked: !is_blocked}) *)
toggleBlock(s) ==
    /\ is_blocked' = [is_blocked EXCEPT ![s] = ~@]
    /\ alone' = [d \in Drivers |-> IF pc[d] # "idle" THEN FALSE ELSE alone[d]]
    /\ UNCHANGED <<wallet_balance, scan_logs, transactions, notifications,
                   now, pc, student, today, todayScans, newBalance,
                   scanResult, wrote, attempts, pre, faults>>
    /\ UNCHANGED tvars

(* SpecB: one scan at a time, every store call succeeds, and the admin     *)
(* blocks and unblocks students between the steps                          *)
NextB ==
    \/ \E d \in Drivers, text \in DecodedTexts :
          Sequential(d) /\ onScanSuccess(d, text, "ok")
    \/ \E d \in Drivers : Sequential(d) /\ InsertBlockedLog(d, "ok")
    \/ \E d \in Drivers : Sequential(d) /\ CountScans(d, "ok")
    \/ \E d \in Drivers : Sequential(d) /\ InsertLimitLog(d, "ok")
    \/ \E d \in Drivers : Sequential(d) /\ InsertInsufficientLog(d, "ok")
    \/ \E d \in Drivers : Sequential(d) /\ UpdateBalance(d, "ok")
    \/ \E d \in Drivers : Sequential(d) /\ InsertTransaction(d, "ok")
    \/ \E d \in Drivers : Sequential(d) /\ InsertSuccessLog(d, "ok")
    \/ \E d \in Drivers : Sequential(d) /\ InsertNotification(d, "ok")
    \/ \E d \in Drivers : Sequential(d) /\ InsertReturnLog(d, "ok")
    \/ \E d \in Drivers : Sequential(d) /\ FetchTodayStats(d, "ok")
    \/ \E d \in Drivers : closeScanner(d)
    \/ Midnight
    \/ \E s \in Students : toggleBlock(s)

SpecB == Init /\ [][NextB]_vars

(* ------------------------- the trip of the bus ------------------------ *)
(* route_stops of the route, ordered by sequence: the position of a stop   *)
(* in metres along the road (latitude/longitude), for the located stops    *)
StopPosition == [s \in Stops |-> IF s = 2 THEN 1100 ELSE 1000 * s]
Positions == {1000, 1045, 1100, 3000}  \* the GPS samples a device reports
LocatedSets == {Stops, Stops \ {2}}    \* routes with and without coordinates
TheBus == 1                            \* driver.bus_id of the dashboards

(* calculateDistance(lat1, lon1, lat2, lon2), along the road *)
calculateDistance(a, b) == IF a >= b THEN a - b ELSE b - a

TripRow(bus) ==
    [bus_id |-> bus, is_active |-> TRUE, ended_at |-> Undefined,
     current_stop_sequence |-> 0]
EventRow(trip, s) ==
    [trip_id |-> trip, route_stop_id |-> s, status |-> "pending",
     arrived_at |-> Undefined, departed_at |-> Undefined]
Item(s, status, event) == [stop |-> s, status |-> status, event |-> event]

(* .from('active_trips').select('*').eq('bus_id', id).eq('is_active', true) *)
(* .single(): the row when exactly one matches, else no data               *)
ActiveTripsOf(bus) ==
    {t \in 1..Len(active_trips) :
        active_trips[t].bus_id = bus /\ active_trips[t].is_active}
SingleActiveTrip(bus) ==
    IF Cardinality(ActiveTripsOf(bus)) = 1
    THEN CHOOSE t \in ActiveTripsOf(bus) : TRUE
    ELSE NoTrip

(* events.find(e => e.route_stop_id === stop.id) over the events of a trip *)
EventsOf(trip, s) ==
    {e \in 1..Len(trip_stop_events) :
        /\ trip_stop_events[e].trip_id = trip
        /\ trip_stop_events[e].route_stop_id = s}
FindEvent(trip, s) ==
    IF EventsOf(trip, s) = {} THEN NoEvent
    ELSE CHOOSE e \in EventsOf(trip, s) : \A f \in EventsOf(trip, s) : e <= f

(* stopsData.map(stop => ({...stop, status: event?.status || 'pending',    *)
(*                         event_id: event?.id}))                          *)
StopsFromEvents(trip) ==
    [s \in Stops |->
        LET e == FindEvent(trip, s)
        IN [status |-> IF e = NoEvent THEN "pending"
                       ELSE trip_stop_events[e].status,
            event_id |-> e]]
PendingStops == [s \in Stops |-> [status |-> "pending", event_id |-> NoEvent]]

(* the useEffect on [activeTrip, stops]: in test mode no watch, else the   *)
(* watch is registered when a trip is active and some stop has coordinates *)
Render(d, trip) ==
    LET watch == ~testMode[d] /\ trip # NoTrip /\ located # {}
    IN /\ watching' = [watching EXCEPT ![d] = watch]
       /\ gpsEnabled' = [gpsEnabled EXCEPT ![d] = testMode[d] \/ watch]

(* autoUpdateStopStatus returns at once: no event id, or the same stop and *)
(* status was issued less than 30 s ago                                    *)
Suppressed(item, last) ==
    \/ item.event = NoEvent
    \/ /\ last.stopId = item.stop
       /\ last.status = item.status
       /\ (clock - last.time) * TickMs < DebounceMs

(* the calls of a handler still to make, up to the first that goes on to   *)
(* the store                                                               *)
RECURSIVE Drop(_, _)
Drop(todo, last) ==
    IF todo = <<>> THEN <<>>
    ELSE IF Suppressed(Head(todo), last) THEN Drop(Tail(todo), last)
    ELSE todo

Issued(d, todo) ==
    IF todo = <<>> THEN lastAutoUpdateRef[d]
    ELSE [stopId |-> Head(todo).stop, status |-> Head(todo).status,
          time |-> clock]

(* const canArrive = !prevStop || prevStop.status === 'departed' *)
canArrive(d, s) ==
    IF s = 1 THEN TRUE ELSE stops[d][s - 1].status = "departed"

(* departureThreshold = min(DEPARTURE_RADIUS_METERS, distToNextStop * 0.4): *)
(* true when `distance` is beyond it (compared in tenths of a metre)       *)
BeyondFixedRadius(s, distance) == distance > DEPARTURE_RADIUS_METERS
BeyondDeparture(s, distance) ==
    LET toNext == calculateDistance(StopPosition[s], StopPosition[s + 1])
        fixed == 10 * DEPARTURE_RADIUS_METERS
        threshold == IF s < NumStops /\ (s + 1) \in located /\ 4 * toNext < fixed
                     THEN 4 * toNext ELSE fixed
    IN 10 * distance > threshold

(* handlePosition: what the body of the loop does with a located stop s    *)
(* for a sample at pos                                                     *)
Decision(d, pos, s) ==
    LET distance == calculateDistance(pos, StopPosition[s])
    IN IF stops[d][s].status = "pending"
          /\ canArrive(d, s) /\ distance <= ARRIVAL_RADIUS_METERS
       THEN "arrived"
       ELSE IF stops[d][s].status = "arrived" /\ BeyondDeparture(s, distance)
       THEN "departed"
       ELSE "none"

(* handlePosition: the loop over the stops, from stop s on; the first stop *)
(* that triggers an update ends the loop                                   *)
RECURSIVE PositionPlanNoBreak(_, _, _)
PositionPlanNoBreak(d, pos, s) ==
    IF s > NumStops THEN <<>>
    ELSE IF s \notin located \/ Decision(d, pos, s) = "none"
    THEN PositionPlanNoBreak(d, pos, s + 1)
    ELSE << Item(s, Decision(d, pos, s), stops[d][s].event_id) >>
         \o PositionPlanNoBreak(d, pos, s + 1)
RECURSIVE PositionPlanAllStops(_, _, _)
PositionPlanAllStops(d, pos, s) ==
    IF s > NumStops THEN <<>>
    ELSE IF Decision(d, pos, s) = "none"
    THEN PositionPlanAllStops(d, pos, s + 1)
    ELSE << Item(s, Decision(d, pos, s), stops[d][s].event_id) >>

RECURSIVE PositionPlan(_, _, _)
PositionPlan(d, pos, s) ==
    IF s > NumStops THEN <<>>
    ELSE IF s \notin located \/ Decision(d, pos, s) = "none"
    THEN PositionPlan(d, pos, s + 1)
    ELSE << Item(s, Decision(d, pos, s), stops[d][s].event_id) >>

(* simulateAtStop: the loop over the stops with the location set to the    *)
(* target stop: every arrived stop but the target is departed, the first   *)
(* pending stop in reach that may arrive is arrived and ends the loop      *)
RECURSIVE SimulatePlan(_, _, _)
SimulatePlan(d, target, s) ==
    IF s > NumStops THEN <<>>
    ELSE IF s \notin located THEN SimulatePlan(d, target, s + 1)
    ELSE LET distance == calculateDistance(StopPosition[target], StopPosition[s])
             st == stops[d][s]
         IN IF st.status = "pending"
               /\ canArrive(d, s) /\ distance <= ARRIVAL_RADIUS_METERS
            THEN << Item(s, "arrived", st.event_id) >>
            ELSE IF st.status = "arrived" /\ s # target
            THEN << Item(s, "departed", st.event_id) >>
                 \o SimulatePlan(d, target, s + 1)
            ELSE SimulatePlan(d, target, s + 1)

(* the store publishes the changes of active_trips and trip_stop_events to *)
(* the subscribed channels of the student viewer                           *)
TripNote(id, active) == [kind |-> "trip", trip |-> id, is_active |-> active]
EventNote(trip) == [kind |-> "event", trip |-> trip, is_active |-> TRUE]
Publish(notes) ==
    /\ changes' = IF viewing THEN changes \o notes ELSE changes
    /\ UNCHANGED <<viewing, viewTrip, viewStops, fetches>>

(* history: the call at the head of todo is past the tests of lines       *)
(* 210-218 and goes on to the store                                        *)
Log(d, todo) ==
    autoLog' = IF todo = <<>> THEN autoLog
               ELSE [autoLog EXCEPT ![d] =
                        Append(@, [event |-> Head(todo).event,
                                   status |-> Head(todo).status,
                                   time |-> clock])]

Start(d, k, via, trip, todo) ==
    task' = [task EXCEPT ![d][k] =
                IF todo = <<>> THEN Idle
                ELSE [pc |-> "event", via |-> via, trip |-> trip, todo |-> todo]]

(* useEffect(fetchData) when the dashboard is opened or reloaded: the      *)
(* component starts from its initial state and selects the bus's active    *)
(* trip                                                                    *)
fetchData(d) ==
    /\ opsLeft > 0
    /\ opsLeft' = opsLeft - 1
    /\ task[d]["button"].pc = "idle"
    /\ LET trip == SingleActiveTrip(TheBus)
       IN /\ activeTrip' = [activeTrip EXCEPT ![d] = trip]
          /\ task' = [task EXCEPT ![d] =
                [k \in Slots |->
                    IF k = "button" /\ trip # NoTrip
                    THEN [pc |-> "fetchEvents", via |-> "load", trip |-> trip,
                          todo |-> <<>>]
                    ELSE Idle]]
          /\ watching' = [watching EXCEPT ![d] = trip # NoTrip /\ located # {}]
          /\ gpsEnabled' = [gpsEnabled EXCEPT ![d] = trip # NoTrip /\ located # {}]
    /\ stops' = [stops EXCEPT ![d] = PendingStops]
    /\ testMode' = [testMode EXCEPT ![d] = FALSE]
    /\ lastAutoUpdateRef' = [lastAutoUpdateRef EXCEPT ![d] = NoLast]
    /\ UNCHANGED <<active_trips, trip_stop_events, located, clock>>
    /\ autoLog' = [autoLog EXCEPT ![d] = <<>>]
    /\ UNCHANGED wvars
    /\ UNCHANGED svars

(* stopsData.filter(stop => !existingEvents.find(...)), from stop s on *)
RECURSIVE MissingStopEvents(_, _)
MissingStopEvents(trip, s) ==
    IF s > NumStops THEN <<>>
    ELSE IF FindEvent(trip, s) = NoEvent
    THEN << Item(s, "pending", NoEvent) >> \o MissingStopEvents(trip, s + 1)
    ELSE MissingStopEvents(trip, s + 1)

(* fetchData: select the trip's events; with none missing, setStops *)
FetchEvents(d) ==
    /\ task[d]["button"].pc = "fetchEvents"
    /\ LET trip == task[d]["button"].trip
           missing == MissingStopEvents(trip, 1)
       IN IF missing # <<>>
          THEN /\ task' = [task EXCEPT ![d]["button"] =
                              [@ EXCEPT !.pc = "backfill", !.todo = missing]]
               /\ UNCHANGED <<stops, watching, gpsEnabled>>
          ELSE /\ task' = [task EXCEPT ![d]["button"] = Idle]
               /\ stops' = [stops EXCEPT ![d] = StopsFromEvents(trip)]
               /\ Render(d, activeTrip[d])
    /\ UNCHANGED <<active_trips, trip_stop_events, located, clock, activeTrip,
                   testMode, lastAutoUpdateRef>>
    /\ UNCHANGED opsLeft
    /\ UNCHANGED autoLog
    /\ UNCHANGED wvars
    /\ UNCHANGED svars

(* the rows of one insert into trip_stop_events *)
RECURSIVE NewEvents(_, _)
NewEvents(trip, todo) ==
    IF todo = <<>> THEN <<>>
    ELSE << EventRow(trip, Head(todo).stop) >> \o NewEvents(trip, Tail(todo))
AllStops == [s \in Stops |-> Item(s, "pending", NoEvent)]

(* fetchData: trip_stop_events.insert(newEvents) for the missing stops *)
InsertMissingEvents(d) ==
    /\ task[d]["button"].pc = "backfill"
    /\ trip_stop_events' =
          trip_stop_events \o NewEvents(task[d]["button"].trip,
                                        task[d]["button"].todo)
    /\ task' = [task EXCEPT ![d]["button"] =
                   [@ EXCEPT !.pc = "refetch", !.todo = <<>>]]
    /\ UNCHANGED <<active_trips, located, clock, activeTrip, stops, testMode,
                   gpsEnabled, watching, lastAutoUpdateRef>>
    /\ UNCHANGED opsLeft
    /\ UNCHANGED autoLog
    /\ Publish([i \in 1..Len(task[d]["button"].todo) |->
                   EventNote(task[d]["button"].trip)])
    /\ UNCHANGED svars

(* fetchData: select the events again and setStops *)
RefetchEvents(d) ==
    /\ task[d]["button"].pc = "refetch"
    /\ stops' = [stops EXCEPT ![d] = StopsFromEvents(task[d]["button"].trip)]
    /\ Render(d, activeTrip[d])
    /\ task' = [task EXCEPT ![d]["button"] = Idle]
    /\ UNCHANGED <<active_trips, trip_stop_events, located, clock, activeTrip,
                   testMode, lastAutoUpdateRef>>
    /\ UNCHANGED opsLeft
    /\ UNCHANGED autoLog
    /\ UNCHANGED wvars
    /\ UNCHANGED svars

(* startTrip, the Start Trip button shown while activeTrip is null:        *)
(* active_trips.insert({bus_id, is_active: true, current_stop_sequence: 0}) *)
(* .select().single(); setActiveTrip(tripData)                             *)
startTrip(d) ==
    /\ opsLeft > 0
    /\ opsLeft' = opsLeft - 1
    /\ task[d]["button"].pc = "idle"
    /\ activeTrip[d] = NoTrip
    /\ Len(active_trips) < MaxTrips
    /\ active_trips' = Append(active_trips, TripRow(TheBus))
    /\ activeTrip' = [activeTrip EXCEPT ![d] = Len(active_trips) + 1]
    /\ Render(d, Len(active_trips) + 1)
    /\ task' = [task EXCEPT ![d]["button"] =
                   [pc |-> "startEvents", via |-> "start",
                    trip |-> Len(active_trips) + 1, todo |-> <<>>]]
    /\ UNCHANGED <<trip_stop_events, located, clock, stops, testMode,
                   lastAutoUpdateRef>>
    /\ UNCHANGED autoLog
    /\ Publish(<< TripNote(Len(active_trips) + 1, TRUE) >>)
    /\ UNCHANGED svars

(* startTrip: trip_stop_events.insert(stops.map(stop => pending event)) *)
InsertStopEvents(d) ==
    /\ task[d]["button"].pc = "startEvents"
    /\ trip_stop_events' =
          trip_stop_events \o NewEvents(task[d]["button"].trip, AllStops)
    /\ task' = [task EXCEPT ![d]["button"].pc = "startSelect"]
    /\ UNCHANGED <<active_trips, located, clock, activeTrip, stops, testMode,
                   gpsEnabled, watching, lastAutoUpdateRef>>
    /\ UNCHANGED opsLeft
    /\ UNCHANGED autoLog
    /\ Publish([s \in Stops |-> EventNote(task[d]["button"].trip)])
    /\ UNCHANGED svars

(* startTrip: select the trip's events; setStops(prev => ({...stop,        *)
(* status: 'pending', event_id: event?.id}))                               *)
SelectStopEvents(d) ==
    /\ task[d]["button"].pc = "startSelect"
    /\ stops' = [stops EXCEPT ![d] =
                    [s \in Stops |->
                        [status |-> "pending",
                         event_id |-> FindEvent(task[d]["button"].trip, s)]]]
    /\ Render(d, activeTrip[d])
    /\ task' = [task EXCEPT ![d]["button"] = Idle]
    /\ UNCHANGED <<active_trips, trip_stop_events, located, clock, activeTrip,
                   testMode, lastAutoUpdateRef>>
    /\ UNCHANGED opsLeft
    /\ UNCHANGED autoLog
    /\ UNCHANGED wvars
    /\ UNCHANGED svars

(* endTrip, the End Trip button shown while activeTrip is set:             *)
(* active_trips.update({is_active: false, ended_at: new Date()})           *)
(* .eq('id', activeTrip.id); setActiveTrip(null); setStops(all pending)    *)
Ended(row) == [row EXCEPT !.is_active = FALSE, !.ended_at = clock]

endTrip(d) ==
    /\ opsLeft > 0
    /\ opsLeft' = opsLeft - 1
    /\ task[d]["button"].pc = "idle"
    /\ activeTrip[d] # NoTrip
    /\ active_trips' = [active_trips EXCEPT ![activeTrip[d]] = Ended(@)]
    /\ activeTrip' = [activeTrip EXCEPT ![d] = NoTrip]
    /\ stops' = [stops EXCEPT ![d] = PendingStops]
    /\ Render(d, NoTrip)
    /\ UNCHANGED <<trip_stop_events, located, clock, testMode,
                   lastAutoUpdateRef, task>>
    /\ UNCHANGED autoLog
    /\ Publish(<< TripNote(activeTrip[d], FALSE) >>)
    /\ UNCHANGED svars

(* the manual buttons of a stop: shown outside test mode when GPS is off   *)
(* or the stop has no coordinates; Arrived on a pending stop that may      *)
(* arrive, Departed on the arrived stop                                    *)
ManualButton(d, s, status) ==
    /\ activeTrip[d] # NoTrip
    /\ ~testMode[d]
    /\ ~gpsEnabled[d] \/ s \notin located
    /\ \/ status = "arrived" /\ stops[d][s].status = "pending" /\ canArrive(d, s)
       \/ status = "departed" /\ stops[d][s].status = "arrived"

(* updateStopStatus(stop, newStatus): if (!activeTrip || !stop.event_id)   *)
(* return; then the two updates                                            *)
updateStopStatus(d, s, status) ==
    /\ opsLeft > 0
    /\ opsLeft' = opsLeft - 1
    /\ task[d]["button"].pc = "idle"
    /\ ManualButton(d, s, status)
    /\ stops[d][s].event_id # NoEvent
    /\ Start(d, "button", "manual", activeTrip[d],
             << Item(s, status, stops[d][s].event_id) >>)
    /\ UNCHANGED <<active_trips, trip_stop_events, located, clock, activeTrip,
                   stops, testMode, gpsEnabled, watching, lastAutoUpdateRef>>
    /\ UNCHANGED autoLog
    /\ UNCHANGED wvars
    /\ UNCHANGED svars

(* handlePosition(position) of the registered watch: the first stop that   *)
(* triggers goes to autoUpdateStopStatus, which is not awaited             *)
handlePosition(d, pos) ==
    /\ opsLeft > 0
    /\ opsLeft' = opsLeft - 1
    /\ watching[d]
    /\ task[d]["gps"].pc = "idle"
    /\ LET todo == Drop(PositionPlan(d, pos, 1), lastAutoUpdateRef[d])
       IN /\ todo # <<>>
          /\ lastAutoUpdateRef' = [lastAutoUpdateRef EXCEPT ![d] = Issued(d, todo)]
          /\ Log(d, todo)
          /\ Start(d, "gps", "gps", activeTrip[d], todo)
    /\ UNCHANGED <<active_trips, trip_stop_events, located, clock, activeTrip,
                   stops, testMode, gpsEnabled, watching>>
    /\ UNCHANGED wvars
    /\ UNCHANGED svars

(* simulateAtStop(stop), the Simulate Arrive button of test mode *)
simulateAtStop(d, target) ==
    /\ opsLeft > 0
    /\ opsLeft' = opsLeft - 1
    /\ task[d]["button"].pc = "idle"
    /\ activeTrip[d] # NoTrip /\ testMode[d] /\ target \in located
    /\ stops[d][target].status = "pending" /\ canArrive(d, target)
    /\ LET todo == Drop(SimulatePlan(d, target, 1), lastAutoUpdateRef[d])
       IN /\ todo # <<>>
          /\ lastAutoUpdateRef' = [lastAutoUpdateRef EXCEPT ![d] = Issued(d, todo)]
          /\ Log(d, todo)
          /\ Start(d, "button", "simulate", activeTrip[d], todo)
    /\ UNCHANGED <<active_trips, trip_stop_events, located, clock, activeTrip,
                   stops, testMode, gpsEnabled, watching>>
    /\ UNCHANGED wvars
    /\ UNCHANGED svars

(* simulateDeparture(stop), the Simulate Depart button of test mode *)
simulateDeparture(d, s) ==
    /\ opsLeft > 0
    /\ opsLeft' = opsLeft - 1
    /\ task[d]["button"].pc = "idle"
    /\ activeTrip[d] # NoTrip /\ testMode[d] /\ s \in located
    /\ stops[d][s].status = "arrived"
    /\ LET todo == Drop(<< Item(s, "departed", stops[d][s].event_id) >>,
                        lastAutoUpdateRef[d])
       IN /\ todo # <<>>
          /\ lastAutoUpdateRef' = [lastAutoUpdateRef EXCEPT ![d] = Issued(d, todo)]
          /\ Log(d, todo)
          /\ Start(d, "button", "simulate", activeTrip[d], todo)
    /\ UNCHANGED <<active_trips, trip_stop_events, located, clock, activeTrip,
                   stops, testMode, gpsEnabled, watching>>
    /\ UNCHANGED wvars
    /\ UNCHANGED svars

(* trip_stop_events.update({status, arrived_at | departed_at: new Date()}) *)
(* .eq('id', stop.event_id)                                                *)
Stamped(row, status) ==
    IF status = "arrived"
    THEN [row EXCEPT !.status = status, !.arrived_at = clock]
    ELSE [row EXCEPT !.status = status, !.departed_at = clock]

UpdateStopEvent(d, k) ==
    /\ task[d][k].pc = "event"
    /\ LET item == Head(task[d][k].todo)
       IN trip_stop_events' =
             [trip_stop_events EXCEPT ![item.event] = Stamped(@, item.status)]
    /\ task' = [task EXCEPT ![d][k].pc = "trip"]
    /\ UNCHANGED <<active_trips, located, clock, activeTrip, stops, testMode,
                   gpsEnabled, watching, lastAutoUpdateRef>>
    /\ UNCHANGED opsLeft
    /\ UNCHANGED autoLog
    /\ Publish(<< EventNote(
           trip_stop_events[Head(task[d][k].todo).event].trip_id) >>)
    /\ UNCHANGED svars

(* the same update when the store answers with an error: the client        *)
(* returns { error } without throwing, the row is as it was, and the       *)
(* handler, which reads no error, goes on to its next await                *)
UpdateStopEventFails(d, k) ==
    /\ task[d][k].pc = "event"
    /\ task' = [task EXCEPT ![d][k].pc = "trip"]
    /\ UNCHANGED <<active_trips, trip_stop_events, located, clock, activeTrip,
                   stops, testMode, gpsEnabled, watching, lastAutoUpdateRef>>
    /\ UNCHANGED opsLeft
    /\ UNCHANGED autoLog
    /\ UNCHANGED wvars
    /\ UNCHANGED svars

(* active_trips.update({current_stop_sequence: stop.sequence})             *)
(* .eq('id', tripId); setStops(prev => prev.map(s => s.id === stop.id ?    *)
(* {...s, status: newStatus} : s)); a simulation goes on with its loop     *)
UpdateCurrentStop(d, k) ==
    /\ task[d][k].pc = "trip"
    /\ LET item == Head(task[d][k].todo)
           todo == IF task[d][k].via = "manual" THEN <<>>
                   ELSE Drop(Tail(task[d][k].todo), lastAutoUpdateRef[d])
       IN /\ active_trips' =
                [active_trips EXCEPT ![task[d][k].trip].current_stop_sequence =
                                        item.stop]
          /\ stops' = [stops EXCEPT ![d][item.stop].status = item.status]
          /\ lastAutoUpdateRef' =
                [lastAutoUpdateRef EXCEPT ![d] = Issued(d, todo)]
          /\ Log(d, todo)
          /\ Start(d, k, task[d][k].via, task[d][k].trip, todo)
    /\ Render(d, activeTrip[d])
    /\ UNCHANGED <<trip_stop_events, located, clock, activeTrip, testMode>>
    /\ UNCHANGED opsLeft
    /\ Publish(<< TripNote(task[d][k].trip,
                            active_trips[task[d][k].trip].is_active) >>)
    /\ UNCHANGED svars

(* the Test Mode button of the Route Stops card: setTestMode(!testMode);   *)
(* the effect that registers the watch does not depend on testMode         *)
toggleTestMode(d) ==
    /\ activeTrip[d] # NoTrip
    /\ testMode' = [testMode EXCEPT ![d] = ~@]
    /\ UNCHANGED <<active_trips, trip_stop_events, located, clock, activeTrip,
                   stops, gpsEnabled, watching, lastAutoUpdateRef, task>>
    /\ UNCHANGED opsLeft
    /\ UNCHANGED autoLog
    /\ UNCHANGED wvars
    /\ UNCHANGED svars

(* handleError of the watch: setGpsEnabled(false) *)
handleError(d) ==
    /\ watching[d]
    /\ gpsEnabled[d]
    /\ gpsEnabled' = [gpsEnabled EXCEPT ![d] = FALSE]
    /\ UNCHANGED <<active_trips, trip_stop_events, located, clock, activeTrip,
                   stops, testMode, watching, lastAutoUpdateRef, task>>
    /\ UNCHANGED opsLeft
    /\ UNCHANGED autoLog
    /\ UNCHANGED wvars
    /\ UNCHANGED svars

(* history: the calls of the log that are less than 30 s old at time t *)
RECURSIVE StillRecent(_, _)
StillRecent(log, t) ==
    IF log = <<>> THEN <<>>
    ELSE IF (t - Head(log).time) * TickMs < DebounceMs
    THEN << Head(log) >> \o StillRecent(Tail(log), t)
    ELSE StillRecent(Tail(log), t)

(* time passes *)
Tick ==
    /\ clock < MaxClock
    /\ clock' = clock + 1
    /\ UNCHANGED <<active_trips, trip_stop_events, located, activeTrip, stops,
                   testMode, gpsEnabled, watching, lastAutoUpdateRef, task>>
    /\ UNCHANGED opsLeft
    /\ autoLog' = [d \in Drivers |-> StillRecent(autoLog[d], clock + 1)]
    /\ UNCHANGED wvars
    /\ UNCHANGED svars

(* SpecT: the dashboards of one bus run its trips concurrently; the scans  *)
(* are left out                                                            *)
ScanIdle ==
    /\ wallet_balance = [s \in Students |-> 100]
    /\ is_blocked = [s \in Students |-> FALSE]
    /\ scan_logs = <<>>
    /\ transactions = <<>>
    /\ notifications = <<>>
    /\ now = 0
    /\ pc = [d \in Drivers |-> "idle"]
    /\ student = [d \in Drivers |-> NoStudent]
    /\ today = [d \in Drivers |-> 0]
    /\ todayScans = [d \in Drivers |-> 0]
    /\ newBalance = [d \in Drivers |-> 0]
    /\ scanResult = [d \in Drivers |-> NoResult]
    /\ wrote = [d \in Drivers |-> <<>>]
    /\ attempts = 0
    /\ pre = [d \in Drivers |-> NoPre]
    /\ alone = [d \in Drivers |-> TRUE]
    /\ faults = 0

InitT ==
    /\ TripInit
    /\ ScanIdle
    /\ located \in LocatedSets
    /\ opsLeft = MaxOps

NextT ==
    \/ \E d \in Drivers : fetchData(d)
    \/ \E d \in Drivers : FetchEvents(d)
    \/ \E d \in Drivers : InsertMissingEvents(d)
    \/ \E d \in Drivers : RefetchEvents(d)
    \/ \E d \in Drivers : startTrip(d)
    \/ \E d \in Drivers : InsertStopEvents(d)
    \/ \E d \in Drivers : SelectStopEvents(d)
    \/ \E d \in Drivers : endTrip(d)
    \/ \E d \in Drivers, s \in Stops, status \in {"arrived", "departed"} :
          updateStopStatus(d, s, status)
    \/ \E d \in Drivers, pos \in Positions : handlePosition(d, pos)
    \/ \E d \in Drivers, s \in Stops : simulateAtStop(d, s)
    \/ \E d \in Drivers, s \in Stops : simulateDeparture(d, s)
    \/ \E d \in Drivers, k \in Slots : UpdateStopEvent(d, k)
    \/ \E d \in Drivers, k \in Slots : UpdateCurrentStop(d, k)
    \/ \E d \in Drivers : toggleTestMode(d)
    \/ \E d \in Drivers : handleError(d)
    \/ Tick

SpecT == InitT /\ [][NextT]_vars

(* SpecQ: the handlers of the dashboards run one after the other: no       *)
(* handler starts while another is suspended at an await; a load then     *)
(* never finds a trip with events missing, so the back-fill has no step    *)
Quiet == \A d \in Drivers, k \in Slots : task[d][k].pc = "idle"

InitQ ==
    /\ TripInit
    /\ ScanIdle
    /\ located \in LocatedSets
    /\ opsLeft = MaxSeqOps

NextQ ==
    \/ \E d \in Drivers : Quiet /\ fetchData(d)
    \/ \E d \in Drivers : FetchEvents(d)
    \/ \E d \in Drivers : Quiet /\ startTrip(d)
    \/ \E d \in Drivers : InsertStopEvents(d)
    \/ \E d \in Drivers : SelectStopEvents(d)
    \/ \E d \in Drivers : Quiet /\ endTrip(d)
    \/ \E d \in Drivers, s \in Stops, status \in {"arrived", "departed"} :
          Quiet /\ updateStopStatus(d, s, status)
    \/ \E d \in Drivers, pos \in Positions : Quiet /\ handlePosition(d, pos)
    \/ \E d \in Drivers, s \in Stops : Quiet /\ simulateAtStop(d, s)
    \/ \E d \in Drivers, s \in Stops : Quiet /\ simulateDeparture(d, s)
    \/ \E d \in Drivers, k \in Slots : UpdateStopEvent(d, k)
    \/ \E d \in Drivers, k \in Slots : UpdateCurrentStop(d, k)
    \/ \E d \in Drivers : Quiet /\ toggleTestMode(d)
    \/ \E d \in Drivers : Quiet /\ handleError(d)
    \/ Quiet /\ Tick

SpecQ == InitQ /\ [][NextQ]_vars

(* ------------------------------ claims -------------------------------- *)
Days == 0..MaxDay

(* the scan records of holder s stamped on calendar day `day` *)
ChargingScans(s, day) ==
    {i \in 1..Len(scan_logs) :
        /\ scan_logs[i].student_id = s
        /\ scan_logs[i].scan_timestamp = day
        /\ scan_logs[i].scan_status = "success"
        /\ scan_logs[i].fare_deducted > 0}

SuccessScans(s, day) ==
    {i \in 1..Len(scan_logs) :
        /\ scan_logs[i].student_id = s
        /\ scan_logs[i].scan_timestamp = day
        /\ scan_logs[i].scan_status = "success"}

Deductions(s, day) ==
    {i \in 1..Len(transactions) :
        /\ transactions[i].student_id = s
        /\ transactions[i].created_at = day
        /\ transactions[i].transaction_type = "deduction"}

(* the deduction entries of holder s, oldest first *)
Ledger(s) ==
    LET Mine(t) == t.student_id = s /\ t.transaction_type = "deduction"
    IN SelectSeq(transactions, Mine)

(* C1: for every pass holder and every calendar day at most one            *)
(* fare-charging scan is recorded (at most one success record with a fare, *)
(* at most one deduction entry), in every interleaving of scan attempts.   *)
C1_OneChargePerDay ==
    \A s \in Students, day \in Days :
        /\ Cardinality(ChargingScans(s, day)) <= 1
        /\ Cardinality(Deductions(s, day)) <= 1

(* C2: in every reachable state each pass holder has at most 2 success     *)
(* scan records stamped on the same calendar day.                          *)
C2_AtMostTwoSuccessPerDay ==
    \A s \in Students, day \in Days :
        Cardinality(SuccessScans(s, day)) <= DailyScanLimit

(* C3: the stored wallet balance of every pass holder is non-negative in   *)
(* every reachable state, and every balance a scan is about to write was   *)
(* computed from a balance read as >= the daily fare.                      *)
C3_BalanceNonNegative ==
    /\ \A s \in Students : wallet_balance[s] >= 0
    /\ \A d \in Drivers :
          pc[d] = "updateBalance" =>
             /\ student[d].wallet_balance >= DailyFare
             /\ newBalance[d] >= 0

(* C3 witness: two scans of one holder have both charged on one day and    *)
(* the balance they left is still non-negative.                            *)
C3_Witness ==
    \E s \in Students, day \in Days :
        /\ Cardinality(Deductions(s, day)) = 2
        /\ wallet_balance[s] >= 0
        /\ wallet_balance[s] < DailyFare

(* no scan of holder s is between its balance update and its ledger insert *)
LedgerSettled(s) ==
    \A d \in Drivers : pc[d] = "insertTransaction" => student[d].id # s

(* C4: the deduction entries of a holder form a chain: each entry has      *)
(* balance_before - balance_after = fare, the balance_after of an entry is *)
(* the balance_before of the next one, and the last balance_after is the   *)
(* stored balance (the deductions add up to the decrease of the balance).  *)
C4_LedgerChain ==
    \A s \in Students :
        LET L == Ledger(s)
        IN /\ \A i \in 1..Len(L) :
                 L[i].balance_before - L[i].balance_after = L[i].amount
           /\ \A i \in 1..(Len(L) - 1) :
                 L[i].balance_after = L[i + 1].balance_before
           /\ (Len(L) > 0 /\ LedgerSettled(s)) =>
                 L[Len(L)].balance_after = wallet_balance[s]

(* the scan of device d resolved to an existing pass holder *)
Found(d) == student[d].id \in Students

(* the writes device d has issued to `table` in the running scan *)
WritesTo(d, table) ==
    LET T(w) == w.table = table IN SelectSeq(wrote[d], T)

Write(table, status, fare) ==
    [table |-> table, status |-> status, fare |-> fare, outcome |-> "ok"]

Last(table) == table[Len(table)]

Outcomes == {"blocked", "limit_exceeded", "insufficient_balance", "success"}

(* C5: every scan attempt that resolves to an existing pass holder leaves  *)
(* exactly one new scan record, whose outcome tag is the outcome reported  *)
(* to the driver; a running attempt has left at most one.                  *)
C5_OneRecordPerAttempt ==
    \A d \in Drivers :
        Found(d) =>
            LET W == WritesTo(d, "scan_logs")
            IN /\ Len(W) <= 1
               /\ pc[d] = "done" =>
                     /\ Len(W) = 1
                     /\ W[1].status = scanResult[d].status
                     /\ scanResult[d].status \in Outcomes
               /\ (pc[d] = "done" /\ alone[d]) =>
                     /\ Len(scan_logs) = pre[d].logs + 1
                     /\ Last(scan_logs).scan_status = scanResult[d].status
                     /\ Last(scan_logs).student_id = student[d].id
                     /\ Last(scan_logs).driver_id = d

(* C5 witness: an attempt that overlapped with another device's writes has *)
(* finished with a failed outcome and one record.                          *)
C5_Witness ==
    \E d \in Drivers :
        /\ pc[d] = "done" /\ Found(d) /\ ~alone[d]
        /\ scanResult[d].status = "insufficient_balance"
        /\ Len(WritesTo(d, "scan_logs")) = 1

Stored(d, table) ==
    \E i \in 1..Len(wrote[d]) :
        wrote[d][i].table = table /\ wrote[d][i].outcome = "ok"

(* C6: a fare-charging scan is atomic under store failures (the balance    *)
(* decrement, the ledger entry and the success record are all written or   *)
(* none is), and a retry never charges the holder a second time that day.  *)
C6_AtomicAndRetryable ==
    /\ \A d \in Drivers :
          pc[d] = "done" =>
             /\ Stored(d, "students") = Stored(d, "transactions")
             /\ Stored(d, "students") =
                   (\E i \in 1..Len(wrote[d]) :
                       /\ wrote[d][i] = Write("scan_logs", "success", DailyFare))
    /\ \A s \in Students, day \in Days :
          /\ Cardinality(Deductions(s, day)) <= 1
          /\ Cardinality(ChargingScans(s, day)) <= 1

(* C7: when the low-balance notification write fails after a first-of-day  *)
(* charge, the scan still reports SUCCESS with the fare and the new        *)
(* balance, and the decrement, the ledger entry and the record remain.     *)
C7_NotifierFailureHarmless ==
    \A d \in Drivers :
        (/\ pc[d] = "done"
         /\ \E i \in 1..Len(wrote[d]) :
               /\ wrote[d][i].table = "notifications"
               /\ wrote[d][i].outcome # "ok") =>
            /\ scanResult[d] = FirstScanResult(d)
            /\ Stored(d, "students")
            /\ Stored(d, "transactions")
            /\ Stored(d, "scan_logs")

(* the scans whose handler has returned, by the case they fell into *)
FirstScanCase(d) ==
    /\ pc[d] = "done" /\ Found(d) /\ ~student[d].is_blocked
    /\ todayScans[d] = 0
    /\ student[d].wallet_balance >= DailyFare

ReturnCase(d) ==
    /\ pc[d] = "done" /\ Found(d) /\ ~student[d].is_blocked
    /\ todayScans[d] = 1

LimitCase(d) ==
    /\ pc[d] = "done" /\ Found(d) /\ ~student[d].is_blocked
    /\ todayScans[d] >= DailyScanLimit

NotNotification(w) == w.table # "notifications"

(* C8: a scan of an unblocked holder with zero successful scans today and  *)
(* balance >= dailyFare returns SUCCESS with fare = dailyFare, sets the    *)
(* stored balance to old balance - dailyFare, writes one deduction entry   *)
(* (before = old, after = new) and one success record (fare, new balance). *)
C8_FirstScanCharges ==
    \A d \in Drivers :
        FirstScanCase(d) =>
            LET s == student[d].id
                old == student[d].wallet_balance
                new == old - DailyFare
            IN /\ scanResult[d] = Result("success", "first", DailyFare, new)
               /\ SelectSeq(wrote[d], NotNotification) =
                     << Write("students", "update", DailyFare),
                        Write("transactions", "deduction", DailyFare),
                        Write("scan_logs", "success", DailyFare) >>
               /\ alone[d] =>
                     /\ wallet_balance[s] = new
                     /\ Len(transactions) = pre[d].txs + 1
                     /\ Last(transactions) =
                           [student_id |-> s, amount |-> DailyFare,
                            transaction_type |-> "deduction",
                            balance_before |-> old, balance_after |-> new,
                            created_at |-> now]
                     /\ Len(scan_logs) = pre[d].logs + 1
                     /\ Last(scan_logs) =
                           [student_id |-> s, driver_id |-> d,
                            scan_status |-> "success",
                            fare_deducted |-> DailyFare,
                            balance_after_scan |-> new,
                            scan_timestamp |-> now]

(* C8 witness (Scenario A): balance 100, fare 60, first scan -> 40 *)
C8_Witness ==
    \E d \in Drivers :
        /\ FirstScanCase(d) /\ alone[d]
        /\ student[d].wallet_balance = 100
        /\ wallet_balance[student[d].id] = 40

(* C9: a scan of an unblocked holder with exactly one successful scan      *)
(* today returns SUCCESS with fare 0, writes one success record with fare  *)
(* 0, and leaves the stored balance and the ledger unchanged.              *)
C9_ReturnTripFree ==
    \A d \in Drivers :
        ReturnCase(d) =>
            LET s == student[d].id
                old == student[d].wallet_balance
            IN /\ scanResult[d] = Result("success", "second", 0, old)
               /\ wrote[d] = << Write("scan_logs", "success", 0) >>
               /\ alone[d] =>
                     /\ wallet_balance[s] = old
                     /\ Len(transactions) = pre[d].txs
                     /\ Len(notifications) = pre[d].notes
                     /\ Len(scan_logs) = pre[d].logs + 1
                     /\ Last(scan_logs) =
                           [student_id |-> s, driver_id |-> d,
                            scan_status |-> "success", fare_deducted |-> 0,
                            balance_after_scan |-> old,
                            scan_timestamp |-> now]
                     /\ Cardinality(SuccessScans(s, now)) = 2

(* C9 witness (Scenario B): the return trip of a holder whose balance is   *)
(* below the fare                                                          *)
C9_Witness ==
    \E d \in Drivers :
        /\ ReturnCase(d) /\ alone[d]
        /\ student[d].wallet_balance < DailyFare
        /\ wallet_balance[student[d].id] = student[d].wallet_balance

(* the success records of its holder that the running scan of d inserted *)
OwnSuccess(d) ==
    LET S(w) == w.table = "scan_logs" /\ w.status = "success"
    IN Len(SelectSeq(wrote[d], S))

(* C10: a scan of an unblocked holder with 2 or more successful scans      *)
(* today returns LIMIT_EXCEEDED, writes one limit_exceeded record with     *)
(* fare 0 and leaves balance and ledger unchanged; the count the limit is  *)
(* tested on is the number of success records of the holder dated today.   *)
C10_LimitExceeded ==
    \A d \in Drivers :
        /\ LimitCase(d) =>
              LET s == student[d].id
                  old == student[d].wallet_balance
              IN /\ scanResult[d] =
                       Result("limit_exceeded", "limit", Undefined, Undefined)
                 /\ wrote[d] = << Write("scan_logs", "limit_exceeded", 0) >>
                 /\ alone[d] =>
                       /\ wallet_balance[s] = old
                       /\ Len(transactions) = pre[d].txs
                       /\ Len(notifications) = pre[d].notes
                       /\ Len(scan_logs) = pre[d].logs + 1
                       /\ Last(scan_logs) =
                             [student_id |-> s, driver_id |-> d,
                              scan_status |-> "limit_exceeded",
                              fare_deducted |-> 0,
                              balance_after_scan |-> old,
                              scan_timestamp |-> now]
        /\ (/\ Found(d) /\ ~student[d].is_blocked
            /\ pc[d] # "count" /\ alone[d]) =>
              todayScans[d] =
                 Cardinality(SuccessScans(student[d].id, today[d]))
                    - OwnSuccess(d)

(* C10 witness (Scenario C): the third scan of the day is refused *)
C10_Witness ==
    \E d \in Drivers :
        /\ LimitCase(d) /\ alone[d]
        /\ scanResult[d].status = "limit_exceeded"
        /\ Cardinality(SuccessScans(student[d].id, now)) = DailyScanLimit

InsufficientCase(d) ==
    /\ pc[d] = "done" /\ Found(d) /\ ~student[d].is_blocked
    /\ todayScans[d] = 0
    /\ student[d].wallet_balance < DailyFare

BlockedCase(d) == pc[d] = "done" /\ Found(d) /\ student[d].is_blocked

NotFoundCase(d) == pc[d] = "done" /\ ~Found(d)

(* the scan of device d, which nobody interleaved with, left the store as  *)
(* it was but for one new scan record with this status, fare 0 and the     *)
(* balance read                                                            *)
OnlyLogged(d, status) ==
    /\ wallet_balance = pre[d].wallet
    /\ Len(transactions) = pre[d].txs
    /\ Len(notifications) = pre[d].notes
    /\ Len(scan_logs) = pre[d].logs + 1
    /\ Last(scan_logs) =
          [student_id |-> student[d].id, driver_id |-> d,
           scan_status |-> status, fare_deducted |-> 0,
           balance_after_scan |-> student[d].wallet_balance,
           scan_timestamp |-> now]

(* C11: a first-of-day scan of an unblocked holder whose balance is below  *)
(* dailyFare returns INSUFFICIENT_BALANCE, writes one insufficient_balance *)
(* record with fare 0, leaves balance and ledger unchanged and does not    *)
(* count towards the day's successful scans.                               *)
C11_InsufficientBalance ==
    \A d \in Drivers :
        InsufficientCase(d) =>
            /\ scanResult[d] = Result("insufficient_balance", "insufficient",
                                      Undefined, Undefined)
            /\ wrote[d] = << Write("scan_logs", "insufficient_balance", 0) >>
            /\ alone[d] =>
                  /\ OnlyLogged(d, "insufficient_balance")
                  /\ wallet_balance[student[d].id] = student[d].wallet_balance
                  /\ CountTodayScans(student[d].id, today[d]) = 0

(* C11 witness (Scenario D): balance 30, fare 60, no scan today *)
C11_Witness ==
    \E d \in Drivers :
        /\ InsufficientCase(d) /\ alone[d]
        /\ student[d].wallet_balance = 30
        /\ wallet_balance[student[d].id] = 30
        /\ Last(scan_logs).scan_status = "insufficient_balance"

(* C12: a scan of a blocked holder returns BLOCKED, writes one blocked     *)
(* record with fare 0 and changes neither balance nor ledger, whatever the *)
(* holder's scan count and balance are.                                    *)
C12_BlockedFirst ==
    \A d \in Drivers :
        BlockedCase(d) =>
            /\ scanResult[d] = Result("blocked", "blocked",
                                      Undefined, Undefined)
            /\ wrote[d] = << Write("scan_logs", "blocked", 0) >>
            /\ alone[d] => OnlyLogged(d, "blocked")

(* C12 witness: a holder who already has two successful scans today was    *)
(* blocked, and the next scan is refused as blocked                        *)
C12_Witness ==
    \E d \in Drivers :
        /\ BlockedCase(d) /\ alone[d]
        /\ Cardinality(SuccessScans(student[d].id, now)) = DailyScanLimit
        /\ Last(scan_logs).scan_status = "blocked"

(* C13: a scan whose decoded identifier matches no pass holder returns     *)
(* NOT_FOUND and leaves the whole store unchanged; no row of any table is  *)
(* ever written against an identifier that is no pass holder.              *)
C13_NotFoundWritesNothing ==
    /\ \A d \in Drivers :
          NotFoundCase(d) =>
             /\ scanResult[d] = Result("not_found", "notfound",
                                       Undefined, Undefined)
             /\ wrote[d] = <<>>
             /\ alone[d] =>
                   /\ wallet_balance = pre[d].wallet
                   /\ Len(scan_logs) = pre[d].logs
                   /\ Len(transactions) = pre[d].txs
                   /\ Len(notifications) = pre[d].notes
    /\ \A i \in 1..Len(scan_logs) : scan_logs[i].student_id \in Students
    /\ \A i \in 1..Len(transactions) : transactions[i].student_id \in Students
    /\ \A i \in 1..Len(notifications) : notifications[i].user_id \in Students

(* C13 witness: an unknown pass was scanned after a holder had been        *)
(* charged, and the tables are as they were                                *)
C13_Witness ==
    \E d \in Drivers :
        /\ NotFoundCase(d) /\ alone[d]
        /\ scanResult[d].status = "not_found"
        /\ Len(scan_logs) > 0
        /\ Len(scan_logs) = pre[d].logs

(* SpecD: the bus has one driver device; its dashboard runs trips, with GPS *)
(* samples, test mode and manual buttons, the handlers overlapping at      *)
(* their awaits                                                            *)
TheDriver == 1

InitD ==
    /\ TripInit
    /\ ScanIdle
    /\ located \in LocatedSets
    /\ opsLeft = MaxSoloOps

NextD ==
    \/ startTrip(TheDriver)
    \/ InsertStopEvents(TheDriver)
    \/ SelectStopEvents(TheDriver)
    \/ endTrip(TheDriver)
    \/ \E s \in Stops, status \in {"arrived", "departed"} :
          updateStopStatus(TheDriver, s, status)
    \/ \E pos \in Positions : handlePosition(TheDriver, pos)
    \/ \E s \in Stops : simulateAtStop(TheDriver, s)
    \/ \E s \in Stops : simulateDeparture(TheDriver, s)
    \/ \E k \in Slots : UpdateStopEvent(TheDriver, k)
    \/ \E k \in Slots : UpdateCurrentStop(TheDriver, k)
    \/ toggleTestMode(TheDriver)
    \/ handleError(TheDriver)
    \/ Tick

SpecD == InitD /\ [][NextD]_vars

(* SpecE: the one dashboard of SpecD with its handlers run one after the   *)
(* other, on a store whose stop-event updates may answer with an error     *)
NextE ==
    \/ Quiet /\ startTrip(TheDriver)
    \/ InsertStopEvents(TheDriver)
    \/ SelectStopEvents(TheDriver)
    \/ Quiet /\ endTrip(TheDriver)
    \/ \E s \in Stops, status \in {"arrived", "departed"} :
          Quiet /\ updateStopStatus(TheDriver, s, status)
    \/ \E pos \in Positions : Quiet /\ handlePosition(TheDriver, pos)
    \/ \E s \in Stops : Quiet /\ simulateAtStop(TheDriver, s)
    \/ \E s \in Stops : Quiet /\ simulateDeparture(TheDriver, s)
    \/ \E k \in Slots : UpdateStopEvent(TheDriver, k)
    \/ \E k \in Slots : UpdateStopEventFails(TheDriver, k)
    \/ \E k \in Slots : UpdateCurrentStop(TheDriver, k)
    \/ Quiet /\ toggleTestMode(TheDriver)
    \/ Quiet /\ handleError(TheDriver)
    \/ Quiet /\ Tick

SpecE == InitD /\ [][NextE]_vars

(* ------------------------- the student viewer -------------------------- *)
(* updateStopsWithEvents(tripId, baseStops), suspended at its select *)
Fetch(trip) ==
    [trip |-> trip, read |-> FALSE, snap |-> [s \in Stops |-> "pending"]]

(* stopsData.map(stop => event ? event.status : 'pending') *)
StoredStatuses(trip) ==
    [s \in Stops |-> IF FindEvent(trip, s) = NoEvent THEN "pending"
                     ELSE trip_stop_events[FindEvent(trip, s)].status]

(* the page is opened: fetchActiveTrip selects the bus's active trip and   *)
(* the channels are subscribed                                             *)
openViewer ==
    /\ ~viewing
    /\ viewing' = TRUE
    /\ LET trip == SingleActiveTrip(TheBus)
       IN /\ viewTrip' = trip
          /\ IF trip # NoTrip
             THEN /\ fetches' = fetches \cup {Fetch(trip)}
                  /\ UNCHANGED viewStops
             ELSE /\ viewStops' = [s \in Stops |-> "pending"]
                  /\ UNCHANGED fetches
    /\ UNCHANGED changes
    /\ UNCHANGED <<active_trips, trip_stop_events, located, clock, activeTrip,
                   stops, testMode, gpsEnabled, watching, lastAutoUpdateRef,
                   opsLeft, task, autoLog>>
    /\ UNCHANGED svars

(* the callbacks of the two channels, for the oldest notification: a trip  *)
(* row with is_active is set as the active trip and its events are         *)
(* fetched; a trip row without it resets the viewer; a change of a stop    *)
(* event of the trip subscribed to fetches the events                      *)
ProcessChange ==
    /\ viewing
    /\ changes # <<>>
    /\ changes' = Tail(changes)
    /\ LET note == Head(changes)
       IN IF note.kind = "trip"
          THEN IF note.is_active
               THEN /\ viewTrip' = note.trip
                    /\ fetches' = fetches \cup {Fetch(note.trip)}
                    /\ UNCHANGED viewStops
               ELSE /\ viewTrip' = NoTrip
                    /\ viewStops' = [s \in Stops |-> "pending"]
                    /\ UNCHANGED fetches
          ELSE /\ fetches' = IF note.trip = viewTrip
                             THEN fetches \cup {Fetch(viewTrip)}
                             ELSE fetches
               /\ UNCHANGED <<viewTrip, viewStops>>
    /\ UNCHANGED viewing
    /\ UNCHANGED <<active_trips, trip_stop_events, located, clock, activeTrip,
                   stops, testMode, gpsEnabled, watching, lastAutoUpdateRef,
                   opsLeft, task, autoLog>>
    /\ UNCHANGED svars

(* updateStopsWithEvents: trip_stop_events.select('*').eq('trip_id', tripId) *)
FetchRead(f) ==
    /\ f \in fetches
    /\ ~f.read
    /\ fetches' = (fetches \ {f})
                  \cup {[trip |-> f.trip, read |-> TRUE,
                         snap |-> StoredStatuses(f.trip)]}
    /\ UNCHANGED <<viewing, changes, viewTrip, viewStops>>
    /\ UNCHANGED <<active_trips, trip_stop_events, located, clock, activeTrip,
                   stops, testMode, gpsEnabled, watching, lastAutoUpdateRef,
                   opsLeft, task, autoLog>>
    /\ UNCHANGED svars

(* updateStopsWithEvents after its await: setStops(updatedStops) *)
FetchApply(f) ==
    /\ f \in fetches
    /\ f.read
    /\ viewStops' = f.snap
    /\ fetches' = fetches \ {f}
    /\ UNCHANGED <<viewing, changes, viewTrip>>
    /\ UNCHANGED <<active_trips, trip_stop_events, located, clock, activeTrip,
                   stops, testMode, gpsEnabled, watching, lastAutoUpdateRef,
                   opsLeft, task, autoLog>>
    /\ UNCHANGED svars

(* SpecV: a student follows the bus while its one dashboard runs a trip,   *)
(* the dashboard's handlers one after the other                            *)
InitV ==
    /\ TripInit
    /\ ScanIdle
    /\ located \in LocatedSets
    /\ opsLeft = MaxViewOps

NextV ==
    \/ Quiet /\ startTrip(TheDriver)
    \/ InsertStopEvents(TheDriver)
    \/ SelectStopEvents(TheDriver)
    \/ Quiet /\ endTrip(TheDriver)
    \/ \E pos \in Positions : Quiet /\ handlePosition(TheDriver, pos)
    \/ \E k \in Slots : UpdateStopEvent(TheDriver, k)
    \/ \E k \in Slots : UpdateCurrentStop(TheDriver, k)
    \/ openViewer
    \/ ProcessChange
    \/ \E f \in fetches : FetchRead(f)
    \/ \E f \in fetches : FetchApply(f)

SpecV == InitV /\ [][NextV]_vars

(* SpecP: one dashboard has loaded an active trip whose stop events are in *)
(* any combination of statuses, and handles GPS samples, including those   *)
(* at the edge of the arrival radius and of the departure thresholds       *)
ProbePositions ==
    {1000, 1040, 1041, 1050, 1051, 1080, 1081, 1090, 1100, 3000, 3080, 3081}
StatusMaps == [Stops -> {"pending", "arrived", "departed"}]

LoadedEvent(s, status) ==
    [trip_id |-> 1, route_stop_id |-> s, status |-> status,
     arrived_at |-> IF status = "pending" THEN Undefined ELSE 0,
     departed_at |-> IF status = "departed" THEN 0 ELSE Undefined]

InitP ==
    /\ ScanIdle
    /\ ViewerInit
    /\ autoLog = [d \in Drivers |-> <<>>]
    /\ located \in LocatedSets
    /\ opsLeft = MaxProbeOps
    /\ clock = 0
    /\ \E st \in StatusMaps :
          /\ trip_stop_events = [s \in Stops |-> LoadedEvent(s, st[s])]
          /\ stops = [d \in Drivers |->
                        IF d = 1
                        THEN [s \in Stops |-> [status |-> st[s], event_id |-> s]]
                        ELSE PendingStops]
    /\ active_trips = << TripRow(TheBus) >>
    /\ activeTrip = [d \in Drivers |-> IF d = 1 THEN 1 ELSE NoTrip]
    /\ testMode = [d \in Drivers |-> FALSE]
    /\ gpsEnabled = [d \in Drivers |-> d = 1]
    /\ watching = [d \in Drivers |-> d = 1]
    /\ lastAutoUpdateRef = [d \in Drivers |-> NoLast]
    /\ task = [d \in Drivers |-> [k \in Slots |-> Idle]]

NextP ==
    \/ \E d \in Drivers, pos \in ProbePositions : handlePosition(d, pos)
    \/ \E d \in Drivers, k \in Slots : UpdateStopEvent(d, k)
    \/ \E d \in Drivers, k \in Slots : UpdateCurrentStop(d, k)
    \/ Tick

SpecP == InitP /\ [][NextP]_vars

(* ------------------------- claims on the trip -------------------------- *)
Trips == 1..Len(active_trips)

(* C14: in every reachable state at most one trip of a bus has the active  *)
(* flag set; a startTrip for a bus that has an active trip creates nothing, *)
(* also from a second dashboard.                                           *)
C14_OneActiveTripPerBus == Cardinality(ActiveTripsOf(TheBus)) <= 1

(* C15: a trip never has a second stop event for the same stop, and once   *)
(* its startTrip has returned it has one event per stop of the route;      *)
(* neither startTrip nor the back-fill of fetchData adds a duplicate.      *)
C15_OneEventPerStop ==
    /\ \A t \in Trips, s \in Stops : Cardinality(EventsOf(t, s)) <= 1
    /\ \A d \in Drivers :
          (activeTrip[d] # NoTrip /\ task[d]["button"].pc = "idle")
             => \A s \in Stops : EventsOf(activeTrip[d], s) # {}

(* C16: endTrip is idempotent: once a trip is ended, no later step, of any *)
(* dashboard, changes its active flag or its end timestamp.                *)
C16_EndTripIdempotent ==
    [][\A t \in Trips :
          ~active_trips[t].is_active =>
             /\ ~active_trips'[t].is_active
             /\ active_trips'[t].ended_at = active_trips[t].ended_at]_vars

Rank(status) ==
    IF status = "pending" THEN 0 ELSE IF status = "arrived" THEN 1 ELSE 2

(* C17: the stored status of a stop event only moves forward, one step at  *)
(* a time: pending to arrived, arrived to departed; no step takes it back  *)
(* or from pending straight to departed.                                   *)
C17_StatusMovesForward ==
    [][\A e \in 1..Len(trip_stop_events) :
          LET old == Rank(trip_stop_events[e].status)
              new == Rank(trip_stop_events'[e].status)
          IN new = old \/ new = old + 1]_vars

(* the stored statuses of stop s in trip t *)
Statuses(t, s) == {trip_stop_events[e].status : e \in EventsOf(t, s)}

(* C18: in every reachable state, when a stop of a trip is arrived or      *)
(* departed every stop of lower sequence is departed.                      *)
C18_LowerStopsDeparted ==
    \A t \in Trips, s \in Stops :
        Statuses(t, s) \cap {"arrived", "departed"} # {} =>
            \A r \in 1..(s - 1) : Statuses(t, r) \subseteq {"departed"}

(* C19: in every reachable state at most one stop event of a trip has      *)
(* status arrived.                                                         *)
C19_AtMostOneArrived ==
    \A t \in Trips :
        Cardinality({e \in 1..Len(trip_stop_events) :
                        /\ trip_stop_events[e].trip_id = t
                        /\ trip_stop_events[e].status = "arrived"}) <= 1

(* a manual advance that the stored state of the trip allows *)
LegalAdvance(trip, item) ==
    IF item.status = "arrived"
    THEN /\ trip_stop_events[item.event].status = "pending"
         /\ \A r \in 1..(item.stop - 1) : Statuses(trip, r) \subseteq {"departed"}
    ELSE trip_stop_events[item.event].status = "arrived"

(* C20: a manual advance that is not legal in the stored state of the stop *)
(* is a silent no-op: the step of updateStopStatus that writes the stop    *)
(* event leaves the stop events, timestamps included, as they are, and the *)
(* step that writes the trip leaves its current-stop marker as it is.      *)
C20_IllegalManualNoOp ==
    [][\A d \in Drivers :
          LET t == task[d]["button"]
          IN (t.via = "manual" /\ t.pc = "event"
              /\ task'[d]["button"].pc = "trip"
              /\ ~LegalAdvance(t.trip, Head(t.todo)))
                 => /\ trip_stop_events' = trip_stop_events
                    /\ active_trips' = active_trips]_vars

(* the rule a position sample at pos is to follow for a located stop s:    *)
(* arrive a pending stop that is first or whose predecessor is departed,   *)
(* within 50 m; depart an arrived stop strictly beyond min(80 m, 0.4 x the *)
(* distance to the next stop) when the next stop has coordinates, 80 m     *)
(* otherwise (in tenths of a metre)                                        *)
RuleThreshold(s) ==
    IF s < NumStops /\ (s + 1) \in located
    THEN LET scaled == 4 * calculateDistance(StopPosition[s], StopPosition[s + 1])
         IN IF scaled < 800 THEN scaled ELSE 800
    ELSE 800
Rule(d, pos, s) ==
    LET distance == calculateDistance(pos, StopPosition[s])
        first == IF s = 1 THEN TRUE ELSE stops[d][s - 1].status = "departed"
    IN IF stops[d][s].status = "pending" /\ first /\ distance <= 50
       THEN "arrived"
       ELSE IF stops[d][s].status = "arrived" /\ 10 * distance > RuleThreshold(s)
       THEN "departed"
       ELSE "none"
Eligible(d, pos) == {s \in located : Rule(d, pos, s) # "none"}
FirstEligible(d, pos) ==
    CHOOSE s \in Eligible(d, pos) : \A r \in Eligible(d, pos) : s <= r

(* C21: one position sample asks for the update of at most one stop event, *)
(* the one of the first stop in sequence order that is eligible; the       *)
(* update in flight for a sample is for a single stop.                     *)
C21_OneStopPerSample ==
    \A d \in Drivers :
        /\ \A pos \in ProbePositions :
              PositionPlan(d, pos, 1) =
                 IF Eligible(d, pos) = {} THEN <<>>
                 ELSE LET s == FirstEligible(d, pos)
                      IN << Item(s, Rule(d, pos, s), stops[d][s].event_id) >>
        /\ Len(task[d]["gps"].todo) <= 1

(* C21 witness: a sample for which two stops were eligible is being        *)
(* handled, and the update in flight is for the first of them              *)
C21_Witness ==
    \E d \in Drivers, pos \in ProbePositions :
        /\ Cardinality(Eligible(d, pos)) >= 2
        /\ task[d]["gps"].pc = "event"
        /\ Head(task[d]["gps"].todo).stop = FirstEligible(d, pos)

Recent(d, item) ==
    \E i \in 1..Len(autoLog[d]) :
        /\ autoLog[d][i].event = item.event
        /\ autoLog[d][i].status = item.status
        /\ (clock - autoLog[d][i].time) * TickMs < 30000

(* C23: the automatic calls of one dashboard for the same stop event and   *)
(* status that went on to the store are 30 s apart or more, and in every   *)
(* state, also while a write is in flight, a position sample that asks     *)
(* again for a (stop, status) issued less than 30 s ago starts no write.   *)
C23_Debounce ==
    \A d \in Drivers :
        /\ \A i, j \in 1..Len(autoLog[d]) :
              (/\ i < j
               /\ autoLog[d][i].event = autoLog[d][j].event
               /\ autoLog[d][i].status = autoLog[d][j].status)
              => (autoLog[d][j].time - autoLog[d][i].time) * TickMs >= 30000
        /\ \A pos \in Positions :
              LET plan == PositionPlan(d, pos, 1)
              IN (watching[d] /\ plan # <<>> /\ Recent(d, Head(plan)))
                 => Drop(plan, lastAutoUpdateRef[d]) = <<>>

(* the handler of dashboard d in slot k is a manual command for stop s at   *)
(* the await named pc                                                      *)
ManualAt(d, k, s, at) ==
    /\ task[d][k].pc = at
    /\ task[d][k].via = "manual"
    /\ Head(task[d][k].todo).stop = s

(* C24: every step that changes the stop event of a stop without           *)
(* coordinates, or moves the driver-side status of such a stop away from   *)
(* pending, is a step of a manual command for that stop; no call started   *)
(* by a position sample or a simulation is for such a stop.                *)
C24_UnlocatedOnlyManual ==
    [][ /\ \A e \in DOMAIN trip_stop_events :
             (/\ trip_stop_events[e].route_stop_id \notin located
              /\ trip_stop_events'[e] # trip_stop_events[e])
             => \E d \in Drivers, k \in Slots :
                   /\ ManualAt(d, k, trip_stop_events[e].route_stop_id, "event")
                   /\ Head(task[d][k].todo).event = e
        /\ \A d \in Drivers, s \in Stops \ located :
             (/\ stops'[d][s].status # stops[d][s].status
              /\ stops'[d][s].status # "pending")
             => \E k \in Slots : ManualAt(d, k, s, "trip")
        /\ \A d \in Drivers, k \in Slots :
             task'[d][k].via \in {"gps", "simulate"}
             => \A i \in 1..Len(task'[d][k].todo) :
                   task'[d][k].todo[i].stop \in located ]_vars

(* C24 witness: on a route whose stop 2 has no coordinates every stop of   *)
(* the active trip is departed; stops 1 and 3 were departed by automatic   *)
(* calls, stop 2 by none                                                   *)
C24_Witness ==
    \E d \in Drivers :
        /\ located = Stops \ {2}
        /\ activeTrip[d] # NoTrip
        /\ active_trips[activeTrip[d]].is_active
        /\ \A s \in Stops :
              /\ stops[d][s].status = "departed"
              /\ stops[d][s].event_id # NoEvent
              /\ trip_stop_events[stops[d][s].event_id].status = "departed"
              /\ trip_stop_events[stops[d][s].event_id].trip_id = activeTrip[d]
        /\ \A s \in {1, 3} : \E i \in 1..Len(autoLog[d]) :
              autoLog[d][i] = [event |-> stops[d][s].event_id,
                               status |-> "departed", time |-> clock]
        /\ \A i \in 1..Len(autoLog[d]) :
              autoLog[d][i].event # stops[d][2].event_id

(* on dashboard d the handler in slot first has written the stop event it  *)
(* is for and the handler in slot second, for the same stop event and      *)
(* status, writes it in this step; one is a manual command, the other an   *)
(* automatic call                                                          *)
SecondWriter(d, first, second) ==
    /\ task[d][first].pc = "trip"
    /\ task[d][second].pc = "event"
    /\ task'[d][second].pc = "trip"
    /\ Head(task[d][first].todo) = Head(task[d][second].todo)
    /\ {task[d][first].via, task[d][second].via} = {"manual", "gps"}

(* C25: when a manual command and an automatic call for the same stop and  *)
(* status race, the write of the second leaves the stop event as the first *)
(* wrote it: status and arrived-at / departed-at keep the first writer's   *)
(* values.                                                                 *)
C25_FirstWriterWins ==
    [][ \A d \in Drivers, first \in Slots, second \in Slots :
           SecondWriter(d, first, second)
           => trip_stop_events' = trip_stop_events ]_vars

(* an automatic call of dashboard d in slot k, made for a trip that has     *)
(* been ended since, takes a step                                          *)
LateAutomaticStep(d, k) ==
    /\ task[d][k].via \in {"gps", "simulate"}
    /\ task[d][k].pc \in {"event", "trip"}
    /\ task'[d][k] # task[d][k]
    /\ ~active_trips[task[d][k].trip].is_active

(* C26: once a trip is ended, a step of an automatic call made for it,     *)
(* also of one started before endTrip, changes no stop event, not the      *)
(* trip's current-stop marker and no driver-side stop status.              *)
C26_IgnoredAfterEnd ==
    [][ \A d \in Drivers, k \in Slots :
           LateAutomaticStep(d, k)
           => /\ trip_stop_events' = trip_stop_events
              /\ active_trips' = active_trips
              /\ stops' = stops ]_vars

(* the position just past the departure threshold of stop s *)
JustPast(s) ==
    StopPosition[s]
    + CHOOSE m \in 1..(DEPARTURE_RADIUS_METERS + 1) :
         /\ BeyondDeparture(s, m)
         /\ \A n \in 1..(m - 1) : ~BeyondDeparture(s, n)

(* C27: wherever the test-mode buttons of a stop are offered, the calls    *)
(* simulateAtStop makes are those a position sample at the stop's          *)
(* coordinates makes, and the call of simulateDeparture is the one a       *)
(* sample just past the stop's departure threshold makes.                  *)
C27_SimulationIsGps ==
    \A d \in Drivers, s \in located :
        (activeTrip[d] # NoTrip /\ testMode[d])
        => /\ (stops[d][s].status = "pending" /\ canArrive(d, s))
              => SimulatePlan(d, s, 1) = PositionPlan(d, StopPosition[s], 1)
           /\ stops[d][s].status = "arrived"
              => << Item(s, "departed", stops[d][s].event_id) >>
                 = PositionPlan(d, JustPast(s), 1)

(* the stops of trip t that have a stop event arrived or departed, and the  *)
(* highest of them (0 when every stop is pending)                          *)
Reached(t) ==
    {s \in Stops : Statuses(t, s) \cap {"arrived", "departed"} # {}}
HighestReached(t) ==
    IF Reached(t) = {} THEN 0
    ELSE CHOOSE s \in Reached(t) : \A r \in Reached(t) : r <= s

(* C28: whenever no handler is suspended at an await, the                  *)
(* current_stop_sequence of an active trip is 0 if every stop is pending   *)
(* and otherwise the sequence of the highest stop arrived or departed.     *)
C28_MarkerIsHighest ==
    Quiet => \A t \in Trips :
                active_trips[t].is_active
                => active_trips[t].current_stop_sequence = HighestReached(t)

(* C29: when updateStopStatus or autoUpdateStopStatus has completed and no *)
(* handler is suspended, the status the dashboard shows for each stop of   *)
(* its trip is the status of the stored stop event, also when the update   *)
(* of the stop event answered with an error.                               *)
C29_ShownIsStored ==
    Quiet => \A d \in Drivers, s \in Stops :
                (activeTrip[d] # NoTrip /\ stops[d][s].event_id # NoEvent)
                => stops[d][s].status
                   = trip_stop_events[stops[d][s].event_id].status

(* the viewer is open and has nothing left to do: every notification is    *)
(* processed, every fetch has completed, and no dashboard handler is       *)
(* suspended before a write                                                *)
Settled == viewing /\ changes = <<>> /\ fetches = {} /\ Quiet

(* C30: a settled viewer shows the store: no active trip and every stop    *)
(* pending when the bus has no active trip, and the stored status of every *)
(* stop event of the active trip when it has one.                          *)
C30_ViewerShowsStore ==
    Settled =>
       IF ActiveTripsOf(TheBus) = {}
       THEN viewTrip = NoTrip /\ \A s \in Stops : viewStops[s] = "pending"
       ELSE \A t \in ActiveTripsOf(TheBus) : viewStops = StoredStatuses(t)

=============================================================================
